---- MODULE Spec2Model ----
(***************************************************************************)
(* Smart File Transfer System: the coordinator (coordinator/app.py) and    *)
(* the sender (sender/send_file.py) as one state machine.                  *)
(*                                                                         *)
(* The coordinator is modelled as loaded by a WSGI host: the whole module  *)
(* body has run, so the second init_db (with the status, received_at and   *)
(* retry_count columns and the transfer_stats table) is in effect.         *)
(*                                                                         *)
(* The sender is modelled with a urllib3 whose Retry accepts the keyword   *)
(* method_whitelist (send_file.py:36), so that the module imports.         *)
(*                                                                         *)
(* Bytes are modelled by position: a byte string is a sequence of ranges   *)
(* <<lo, hi>> of the sender's file, adjacent ranges merged, so two byte    *)
(* strings are equal exactly when they hold the same bytes of a file whose *)
(* bytes are pairwise distinguishable.  SHA-256 is modelled as injective.  *)
(***************************************************************************)
EXTENDS Integers, Sequences, FiniteSets, TLC

\* ---------------------------------------------------------------- bounds
MaxRequests == 3       \* requests the clients send in one behaviour
MaxFaults == 1         \* disk write failures in one behaviour
MaxHours == 2          \* hours the wall clock advances
MaxAnswers == 7        \* HTTP answers one sender run gets from a server
MaxRecords == 12       \* calls of record_success and record_failure on one monitor
MaxUploads == 4        \* answers to /upload/chunk in a run whose other answers are unbounded

\* ------------------------------------------------------------- constants
MIN_CHUNK_SIZE == 65536
MAX_CHUNK_SIZE == 10485760
max_consecutive_failures == 5
RetryTotal == 3
SpeedWindow == 10
StaleHours == 1

\* ------------------------------------------------------------ byte strings
None == "None"

Range(lo, hi) == IF lo < hi THEN << <<lo, hi>> >> ELSE << >>

Cat(a, b) ==
    IF a = << >> THEN b
    ELSE IF b = << >> THEN a
    ELSE IF a[Len(a)][2] = b[1][1]
         THEN SubSeq(a, 1, Len(a) - 1) \o << <<a[Len(a)][1], b[1][2]>> >> \o Tail(b)
         ELSE a \o b

RECURSIVE ByteLen(_)
ByteLen(b) == IF b = << >> THEN 0 ELSE (b[1][2] - b[1][1]) + ByteLen(Tail(b))

\* hashlib.sha256(data).hexdigest(), injective on the modelled byte strings
sha256_bytes(b) == [sha256 |-> b]

Min(a, b) == IF a < b THEN a ELSE b
Max(a, b) == IF a > b THEN a ELSE b

\* the first n bytes of a byte string, and what follows them
RECURSIVE Take(_, _)
Take(a, n) ==
    IF n <= 0 \/ a = << >> THEN << >>
    ELSE LET w == a[1][2] - a[1][1]
         IN IF n >= w THEN <<a[1]>> \o Take(Tail(a), n - w)
            ELSE << <<a[1][1], a[1][1] + n>> >>

RECURSIVE Drop(_, _)
Drop(a, n) ==
    IF a = << >> \/ n <= 0 THEN a
    ELSE LET w == a[1][2] - a[1][1]
         IN IF n >= w THEN Drop(Tail(a), n - w)
            ELSE << <<a[1][1] + n, a[1][2]>> >> \o Tail(a)

\* write(2) of `data` at offset pos of a file holding `content`: the bytes
\* under the write are replaced, the others stay, and a gap between the end of
\* the file and pos reads as bytes of value 0 (a range below position 0 here)
WriteAt(content, pos, data) ==
    LET len == ByteLen(content)
        head == IF pos <= len THEN Take(content, pos)
                ELSE Cat(content, Range(len - pos, 0))
        tail == Drop(content, pos + ByteLen(data))
    IN IF data = << >> THEN content ELSE Cat(Cat(head, data), tail)

RECURSIVE SortedSeq(_)
SortedSeq(S) ==
    IF S = {} THEN << >>
    ELSE LET m == CHOOSE x \in S : \A y \in S : x <= y
         IN <<m>> \o SortedSeq(S \ {m})

\* ------------------------------------------------------- client universe
\* a file_id and a filename a client can choose so that the path of the
\* file_id's chunk 0, <UPLOAD_DIR>/<file_id>/chunk_000000.bin (line 183), and
\* the output path <UPLOAD_DIR>/assembled_<filename> (line 285) are one path
AliasFileId == "assembled_x"
AliasFilename == "x/chunk_000000.bin"

\* the file_ids of generic requests, and all file_ids the stores are keyed by
ClientFileIds == {"f1", "f2"}
FileIds == ClientFileIds \cup {AliasFileId}
Filenames == {"a.bin"}
\* the request handlers the coordinator runs at the same time
Reqs == {1, 2}

\* what a generic client can put in a /upload/init body: a 2-byte file cut
\* into one chunk of 2 bytes or into two chunks of 1 byte
ClientFile == Range(0, 2)
ClientFileSize == ByteLen(ClientFile)
ClientChunkSizes == {1, 2}
ClientBlobs == {Range(0, 1), Range(1, 2), Range(0, 2)}
ClientChunkIds == 0 .. 1
\* shapes of a /upload/chunk request that fail the form validation
Malformed == {"missing_field", "bad_chunk_id", "no_chunk_part", "empty_filename", "empty_data"}

VARIABLES
    manifests,       \* table manifests: file_id -> row, for the file_ids that have one
    chunks,          \* table chunks: file_id -> (chunk_id -> row)
    transfer_stats,  \* the in-memory defaultdict transfer_stats
    staging,         \* UPLOAD_DIR/<file_id>/chunk_NNNNNN.bin: file_id -> (chunk_id -> bytes)
    outputs,         \* UPLOAD_DIR/assembled_<filename>: filename -> bytes, for the files that exist
    events,          \* everything socketio.emit has published, in order
    h,               \* the request handlers in flight: slot -> request, locals, response
    db_writer,       \* the handler holding SQLite's write lock, 0 when free
    sent,            \* requests sent so far
    faults,          \* disk write failures so far
    now,             \* wall clock, in hours since the coordinator started
    sweeper,         \* the one-shot sweeper thread: pc "sleeping" or "done", and the
                     \* offset of the host's local time from UTC, in hours
    s                \* the sender process (send_file.py main)

vars == <<manifests, chunks, transfer_stats, staging, outputs, events, h,
          db_writer, sent, faults, now, sweeper, s>>

coord == <<manifests, chunks, transfer_stats, staging, outputs, events, db_writer>>

\* ------------------------------------------------------------- the Store
EmptyFun == [x \in {} |-> 0]

\* defaultdict(lambda: {...}) at app.py:37
StatsDefault == [start_time |-> None, bytes_received |-> 0, chunks_received |-> 0, errors |-> 0]

\* SELECT COUNT(*) FROM chunks WHERE file_id = ? AND received = 1
count_received(ch, f) == Cardinality({c \in DOMAIN ch[f] : ch[f][c].received = 1})

\* SELECT chunk_id FROM chunks WHERE file_id=? AND received=0
list_missing(ch, f) == {c \in DOMAIN ch[f] : ch[f][c].received = 0}

\* ------------------------------------------------------- handler records
Idle == [kind |-> "idle", pc |-> "idle", file_id |-> None, chunk_id |-> -1,
         data |-> << >>, checksum |-> sha256_bytes(<< >>), wf |-> "ok",
         body |-> [filename |-> None, size |-> 0, chunk_size |-> 0, chunks |-> << >>],
         manifest |-> [status |-> None, filename |-> None, total_chunks |-> -1],
         received_count |-> -1, i |-> 0, errors |-> 0,
         code |-> 0, resp |-> [status |-> None], ret |-> 0, overlap |-> {}, prior |-> -1,
         pos |-> 0, buf |-> << >>]

InFlight(r) == h[r].pc \notin {"idle", "done"}

\* return jsonify(body), code   at source line `line`
Return(r, code, resp, line) ==
    [h EXCEPT ![r].pc = "done", ![r].code = code, ![r].resp = resp, ![r].ret = line]

Emit(kind, f, c, received, total) ==
    Append(events, [kind |-> kind, file_id |-> f, chunk_id |-> c,
                    received |-> received, total |-> total])

\* ------------------------------------------------------------ the sender's
\* split_file: the chunk metadata of a file of `size` bytes cut at chunk_size
\* (fh.read(0) returns b'' at once, so chunk_size 0 yields no chunk)
split_file(size, chunk_size) ==
    IF chunk_size = 0 THEN << >>
    ELSE [k \in 1 .. ((size + chunk_size - 1) \div chunk_size) |->
            [chunk_id |-> k - 1,
             size |-> Min(k * chunk_size, size) - (k - 1) * chunk_size,
             checksum |-> sha256_bytes(Range((k - 1) * chunk_size, Min(k * chunk_size, size)))]]

\* the JSON body send_manifest posts
ManifestBody(filename, size, chunk_size, chunks_meta) ==
    [filename |-> filename, size |-> size, chunk_size |-> chunk_size, chunks |-> chunks_meta]

\* ------------------------------------------------- POST /upload/init
\* the body b repeats the manifest and chunk rows file_id f already has
\* (bookkeeping for the properties, not part of the handler)
SameManifest(f, b) ==
    /\ f \in DOMAIN manifests
    /\ manifests[f].filename = b.filename
    /\ manifests[f].size = b.size
    /\ manifests[f].chunk_size = b.chunk_size
    /\ manifests[f].total_chunks = Len(b.chunks)
    /\ \A k \in DOMAIN b.chunks :
          /\ b.chunks[k].chunk_id \in DOMAIN chunks[f]
          /\ chunks[f][b.chunks[k].chunk_id].checksum = b.chunks[k].checksum

\* lines 68-85: one transaction that replaces the manifest row and inserts or
\* replaces one chunk row per element of the body, every row with received 0
ui_db(r) ==
    LET q == h[r]
        f == q.file_id
        b == q.body
        ids == {b.chunks[k].chunk_id : k \in DOMAIN b.chunks}
        row(c) == LET k == CHOOSE k \in DOMAIN b.chunks : b.chunks[k].chunk_id = c
                  IN [checksum |-> b.chunks[k].checksum, received |-> 0, retry_count |-> 0]
    IN /\ db_writer = 0
       /\ manifests' = [x \in (DOMAIN manifests) \cup {f} |->
              IF x = f
              THEN [filename |-> b.filename, size |-> b.size, chunk_size |-> b.chunk_size,
                    total_chunks |-> Len(b.chunks), status |-> "active", created_at |-> now]
              ELSE manifests[x]]
       /\ chunks' = [chunks EXCEPT ![f] =
              [c \in (DOMAIN chunks[f]) \cup ids |-> IF c \in ids THEN row(c) ELSE chunks[f][c]]]
       /\ h' = [h EXCEPT ![r].pc = "init_emit",
                         ![r].prior = IF SameManifest(f, b) THEN count_received(chunks, f) ELSE -1]
       /\ UNCHANGED <<transfer_stats, staging, outputs, events, db_writer, faults>>

\* lines 86-87
ui_emit(r) ==
    LET q == h[r]
    IN /\ events' = Emit("manifest", q.file_id, -1, -1, Len(q.body.chunks))
       /\ h' = Return(r, 200, [status |-> "ok"], 87)
       /\ UNCHANGED <<manifests, chunks, transfer_stats, staging, outputs, db_writer, faults>>

upload_init(r) ==
    /\ h[r].kind = "init"
    /\ InFlight(r)
    /\ CASE h[r].pc = "init_db" -> ui_db(r)
         [] h[r].pc = "init_emit" -> ui_emit(r)
    /\ UNCHANGED <<sent, now, sweeper, s>>

\* ------------------------------------------------- POST /upload/chunk
\* lines 95-131: form validation and checksum verification. The statement at
\* line 131, transfer_stats[file_id]['errors'] += 1, reads the counter here and
\* stores it in uc_mismatch: handlers run on threads of one process and nothing
\* guards the map, so another handler can run between the read and the store
uc_validate(r) ==
    LET q == h[r]
        f == q.file_id
    IN IF q.wf = "missing_field" THEN
            /\ h' = Return(r, 400, [error |-> "Missing required field"], 99)
            /\ UNCHANGED <<coord, faults>>
       ELSE IF q.wf = "bad_chunk_id" THEN
            /\ h' = Return(r, 400, [error |-> "Invalid chunk_id format"], 105)
            /\ UNCHANGED <<coord, faults>>
       ELSE IF q.wf = "no_chunk_part" THEN
            /\ h' = Return(r, 400, [error |-> "No chunk file provided"], 111)
            /\ UNCHANGED <<coord, faults>>
       ELSE IF q.wf = "empty_filename" THEN
            /\ h' = Return(r, 400, [error |-> "Empty chunk file"], 115)
            /\ UNCHANGED <<coord, faults>>
       ELSE IF q.data = << >> THEN
            /\ h' = Return(r, 400, [error |-> "Empty chunk data"], 120)
            /\ UNCHANGED <<coord, faults>>
       ELSE IF sha256_bytes(q.data) # q.checksum THEN
            /\ h' = [h EXCEPT ![r].pc = "mismatch", ![r].errors = transfer_stats[f].errors]
            /\ UNCHANGED <<coord, faults>>
       ELSE
            /\ h' = [h EXCEPT ![r].pc = "lookup"]
            /\ UNCHANGED <<coord, faults>>

\* lines 131-144: the store of errors + 1, the error event and the 400
uc_mismatch(r) ==
    LET q == h[r]
        f == q.file_id
    IN /\ transfer_stats' = [transfer_stats EXCEPT ![f].errors = q.errors + 1]
       /\ events' = Emit("error", f, q.chunk_id, -1, -1)
       /\ h' = Return(r, 400, [error |-> "Checksum verification failed"], 144)
       /\ UNCHANGED <<manifests, chunks, staging, outputs, db_writer, faults>>

\* lines 146-157: the manifest must exist and be active
uc_lookup(r) ==
    LET q == h[r]
        m == manifests[q.file_id]
    IN /\ h' = IF q.file_id \notin DOMAIN manifests
                  THEN Return(r, 404, [error |-> "Unknown file_id"], 154)
               ELSE IF m.status # "active" THEN Return(r, 409, [error |-> "Transfer not active"], 157)
               ELSE [h EXCEPT ![r].pc = "check",
                              ![r].manifest = [status |-> m.status, filename |-> m.filename,
                                               total_chunks |-> m.total_chunks]]
       /\ UNCHANGED <<coord, faults>>

\* a variant of uc_check that goes on to the UPDATE without the staging write
uc_check_unstaged(r) ==
    LET q == h[r]
        f == q.file_id
        c == q.chunk_id
    IN /\ h' = IF c \notin DOMAIN chunks[f]
                  THEN Return(r, 400, [error |-> "Invalid chunk_id for this file"], 164)
               ELSE [h EXCEPT ![r].pc = "mark"]
       /\ UNCHANGED <<coord, faults>>

\* lines 159-178: the chunk row must exist; a row already received is a duplicate
uc_check(r) ==
    LET q == h[r]
        f == q.file_id
        c == q.chunk_id
    IN /\ h' = IF c \notin DOMAIN chunks[f]
                  THEN Return(r, 400, [error |-> "Invalid chunk_id for this file"], 164)
               ELSE IF chunks[f][c].received = 1
                  THEN Return(r, 200, [status |-> "ok", received |-> count_received(chunks, f),
                                       total |-> q.manifest.total_chunks, duplicate |-> TRUE], 178)
               ELSE [h EXCEPT ![r].pc = "open"]
       /\ UNCHANGED <<coord, faults>>

\* lines 181-186: mkdir and open(chunk_path, 'wb'), which truncates the file
uc_open(r) ==
    LET q == h[r]
        f == q.file_id
        c == q.chunk_id
    IN \E ioerror \in BOOLEAN :
          /\ ioerror => faults < MaxFaults
          /\ IF ioerror
             THEN /\ h' = Return(r, 500, [error |-> "Failed to write chunk to disk"], 190)
                  /\ faults' = faults + 1
                  /\ UNCHANGED coord
             ELSE /\ staging' = [staging EXCEPT ![f] =
                          [x \in (DOMAIN staging[f]) \cup {c} |-> IF x = c THEN << >> ELSE staging[f][x]]]
                  /\ h' = [h EXCEPT ![r].pc = "write"]
                  /\ UNCHANGED <<manifests, chunks, transfer_stats, outputs, events, db_writer, faults>>

\* line 187: fh.write(data) through the handler's own file object, at offset
\* 0; a failing write leaves a prefix of the data
uc_write(r) ==
    LET q == h[r]
        f == q.file_id
        c == q.chunk_id
        lo == q.data[1][1]
    IN \E ioerror \in BOOLEAN :
          /\ ioerror => faults < MaxFaults
          /\ IF ioerror
             THEN /\ \E k \in 0 .. (ByteLen(q.data) - 1) :
                        staging' = [staging EXCEPT ![f][c] = WriteAt(@, 0, Range(lo, lo + k))]
                  /\ h' = Return(r, 500, [error |-> "Failed to write chunk to disk"], 190)
                  /\ faults' = faults + 1
                  /\ UNCHANGED <<manifests, chunks, transfer_stats, outputs, events, db_writer>>
             ELSE /\ staging' = [staging EXCEPT ![f][c] = WriteAt(@, 0, q.data)]
                  /\ h' = [h EXCEPT ![r].pc = "mark"]
                  /\ UNCHANGED <<manifests, chunks, transfer_stats, outputs, events, db_writer, faults>>

\* lines 193-196: UPDATE chunks SET received = 1 ..., which takes SQLite's
\* write lock (waiting while another connection holds it); not yet committed
uc_mark(r) ==
    /\ db_writer = 0
    /\ db_writer' = r
    /\ h' = [h EXCEPT ![r].pc = "stats"]
    /\ UNCHANGED <<manifests, chunks, transfer_stats, staging, outputs, events, faults>>

\* the chunk rows as the handler's own transaction sees them after its UPDATE
Marked(f, c) ==
    [chunks EXCEPT ![f][c] = [@ EXCEPT !.received = 1, !.retry_count = @ + 1]]

\* a variant of uc_stats whose failing request keeps its UPDATE: the 500 is
\* answered after a commit
uc_stats_committing(r) ==
    LET q == h[r]
        f == q.file_id
        c == q.chunk_id
    IN /\ transfer_stats' = [transfer_stats EXCEPT
                                ![f].bytes_received = @ + ByteLen(q.data),
                                ![f].chunks_received = @ + 1]
       /\ chunks' = Marked(f, c)
       /\ h' = Return(r, 500, [error |-> "Internal server error"], 259)
       /\ db_writer' = 0
       /\ UNCHANGED <<manifests, staging, outputs, events, faults>>

\* lines 199-214: in-memory statistics, the progress count, and the elapsed
\* time transfer_stats[file_id]['start_time'].timestamp(); start_time None
\* raises, the handler at 257-263 answers 500 and closing the connection rolls
\* the UPDATE back
uc_stats(r) ==
    LET q == h[r]
        f == q.file_id
        c == q.chunk_id
    IN /\ transfer_stats' = [transfer_stats EXCEPT
                                ![f].bytes_received = @ + ByteLen(q.data),
                                ![f].chunks_received = @ + 1]
       /\ IF transfer_stats[f].start_time = None
          THEN /\ h' = Return(r, 500, [error |-> "Internal server error"], 259)
               /\ db_writer' = 0
          ELSE /\ h' = [h EXCEPT ![r].pc = "commit",
                                 ![r].received_count = count_received(Marked(f, c), f)]
               /\ UNCHANGED db_writer
       /\ UNCHANGED <<manifests, chunks, staging, outputs, events, faults>>

\* line 216: conn.commit()
uc_commit(r) ==
    /\ chunks' = Marked(h[r].file_id, h[r].chunk_id)
    /\ db_writer' = 0
    /\ h' = [h EXCEPT ![r].pc = "emit"]
    /\ UNCHANGED <<manifests, transfer_stats, staging, outputs, events, faults>>

\* lines 218-251: the chunk event, transfer_complete when the count reached
\* total_chunks, and the 200 response
uc_emit(r) ==
    LET q == h[r]
        f == q.file_id
        total == q.manifest.total_chunks
        ev1 == Emit("chunk", f, q.chunk_id, q.received_count, total)
    IN /\ events' = IF q.received_count = total
                    THEN Append(ev1, [kind |-> "transfer_complete", file_id |-> f, chunk_id |-> -1,
                                      received |-> -1, total |-> -1])
                    ELSE ev1
       /\ h' = Return(r, 200, [status |-> "ok", received |-> q.received_count,
                               total |-> total, duplicate |-> FALSE], 251)
       /\ UNCHANGED <<manifests, chunks, transfer_stats, staging, outputs, db_writer, faults>>

upload_chunk(r) ==
    /\ h[r].kind = "chunk"
    /\ InFlight(r)
    /\ CASE h[r].pc = "validate" -> uc_validate(r)
         [] h[r].pc = "mismatch" -> uc_mismatch(r)
         [] h[r].pc = "lookup" -> uc_lookup(r)
         [] h[r].pc = "check" -> uc_check(r)
         [] h[r].pc = "open" -> uc_open(r)
         [] h[r].pc = "write" -> uc_write(r)
         [] h[r].pc = "mark" -> uc_mark(r)
         [] h[r].pc = "stats" -> uc_stats(r)
         [] h[r].pc = "commit" -> uc_commit(r)
         [] h[r].pc = "emit" -> uc_emit(r)
    /\ UNCHANGED <<sent, now, sweeper, s>>

\* ------------------------------------------- GET /upload/missing/<file_id>
\* lines 267-273 (rows come back in index order; chunk rows are inserted in
\* ascending chunk_id order and no property depends on the order)
missing(r) ==
    /\ h[r].kind = "missing"
    /\ InFlight(r)
    /\ h' = Return(r, 200, [missing |-> SortedSeq(list_missing(chunks, h[r].file_id))], 273)
    /\ UNCHANGED <<coord, faults, sent, now, sweeper, s>>

\* ------------------------------------------------ POST /assemble/<file_id>
\* lines 277-285
as_lookup(r) ==
    LET m == manifests[h[r].file_id]
    IN /\ h' = IF h[r].file_id \notin DOMAIN manifests
                  THEN Return(r, 404, [error |-> "unknown file id"], 282)
               ELSE [h EXCEPT ![r].pc = "as_open",
                              ![r].manifest = [status |-> None, filename |-> m.filename,
                                               total_chunks |-> m.total_chunks]]
       /\ UNCHANGED <<coord, faults>>

\* the file at <UPLOAD_DIR>/assembled_<fn>: for AliasFilename it is the staged
\* file of chunk 0 of AliasFileId, for any other name a file of its own
out_exists(fn) ==
    IF fn = AliasFilename THEN 0 \in DOMAIN staging[AliasFileId] ELSE fn \in DOMAIN outputs

out_content(fn) ==
    IF fn = AliasFilename THEN staging[AliasFileId][0] ELSE outputs[fn]

\* the file system after the file at that path was created with, or changed
\* to, content b
out_put(fn, b) ==
    IF fn = AliasFilename
    THEN /\ staging' = [staging EXCEPT ![AliasFileId] =
                [c \in (DOMAIN staging[AliasFileId]) \cup {0} |->
                    IF c = 0 THEN b ELSE staging[AliasFileId][c]]]
         /\ outputs' = outputs
    ELSE /\ outputs' = [x \in (DOMAIN outputs) \cup {fn} |-> IF x = fn THEN b ELSE outputs[x]]
         /\ staging' = staging

\* open(out_path, 'wb') needs the directory of out_path; for AliasFilename
\* that is <UPLOAD_DIR>/assembled_x, which exists once an upload for
\* AliasFileId has got to line 182
out_dir_exists(fn) ==
    fn = AliasFilename => DOMAIN staging[AliasFileId] # {}

\* a variant of as_open that opens the output for appending: the file keeps
\* what it holds and the writes go behind it
as_open_appending(r) ==
    LET q == h[r]
        fn == q.manifest.filename
    IN /\ outputs' = [x \in (DOMAIN outputs) \cup {fn} |->
                          IF x \in DOMAIN outputs THEN outputs[x] ELSE << >>]
       /\ h' = [h EXCEPT ![r].pc = IF q.manifest.total_chunks = 0 THEN "as_emit" ELSE "as_copy",
                         ![r].i = 0,
                         ![r].pos = IF fn \in DOMAIN outputs THEN ByteLen(outputs[fn]) ELSE 0,
                         ![r].buf = << >>]
       /\ UNCHANGED <<manifests, chunks, transfer_stats, staging, events, db_writer, faults>>

\* line 286: open(out_path, 'wb') creates or truncates the output; the
\* handler's file object starts at offset 0 with an empty write buffer.
\* Without the directory, open raises FileNotFoundError, which assemble does
\* not catch: the server answers 500
as_open(r) ==
    LET q == h[r]
    IN IF ~out_dir_exists(q.manifest.filename)
       THEN /\ h' = Return(r, 500, [html |-> "Internal Server Error"], 286)
            /\ UNCHANGED <<coord, faults>>
       ELSE /\ out_put(q.manifest.filename, << >>)
            /\ h' = [h EXCEPT ![r].pc = IF q.manifest.total_chunks = 0 THEN "as_emit" ELSE "as_copy",
                              ![r].i = 0, ![r].pos = 0, ![r].buf = << >>]
            /\ UNCHANGED <<manifests, chunks, transfer_stats, events, db_writer, faults>>

\* a variant of as_copy that passes over a chunk file that does not exist
as_copy_skipping(r) ==
    LET q == h[r]
        f == q.file_id
        fn == q.manifest.filename
        part == IF q.i \in DOMAIN staging[f] THEN staging[f][q.i] ELSE << >>
    IN /\ outputs' = [outputs EXCEPT ![fn] = WriteAt(@, q.pos, Cat(q.buf, part))]
       /\ h' = [h EXCEPT ![r].i = q.i + 1,
                         ![r].pos = q.pos + ByteLen(Cat(q.buf, part)),
                         ![r].buf = << >>,
                         ![r].pc = IF q.i + 1 = q.manifest.total_chunks THEN "as_emit" ELSE "as_copy"]
       /\ UNCHANGED <<manifests, chunks, transfer_stats, staging, events, db_writer, faults>>

\* lines 287-292, one iteration.  out.write goes to the buffer of the
\* handler's file object; the buffer is written to the file, at the object's
\* own offset, when it is full (any write may be the one) and when the with
\* block is left.  A chunk file that does not exist ends the request with 400
\* and leaves the output as far as it was written
as_copy(r) ==
    LET q == h[r]
        f == q.file_id
        fn == q.manifest.filename
    IN IF q.i \notin DOMAIN staging[f]
       THEN /\ out_put(fn, WriteAt(out_content(fn), q.pos, q.buf))
            /\ h' = [Return(r, 400, [error |-> "missing chunk", index |-> q.i], 290)
                        EXCEPT ![r].pos = q.pos + ByteLen(q.buf), ![r].buf = << >>]
            /\ UNCHANGED <<manifests, chunks, transfer_stats, events, db_writer, faults>>
       ELSE LET pending == Cat(q.buf, staging[f][q.i])
                last == q.i + 1 = q.manifest.total_chunks
            IN \E flush \in BOOLEAN :
                  /\ last => flush
                  /\ IF flush THEN out_put(fn, WriteAt(out_content(fn), q.pos, pending))
                     ELSE UNCHANGED <<staging, outputs>>
                  /\ h' = [h EXCEPT ![r].i = q.i + 1,
                                    ![r].pos = IF flush THEN q.pos + ByteLen(pending) ELSE q.pos,
                                    ![r].buf = IF flush THEN << >> ELSE pending,
                                    ![r].pc = IF last THEN "as_emit" ELSE "as_copy"]
                  /\ UNCHANGED <<manifests, chunks, transfer_stats, events, db_writer, faults>>

\* lines 294-295
as_emit(r) ==
    LET q == h[r]
    IN /\ events' = Emit("assembled", q.file_id, -1, -1, -1)
       /\ h' = Return(r, 200, [status |-> "ok", path |-> q.manifest.filename], 295)
       /\ UNCHANGED <<manifests, chunks, transfer_stats, staging, outputs, db_writer, faults>>

assemble(r) ==
    /\ h[r].kind = "assemble"
    /\ InFlight(r)
    /\ CASE h[r].pc = "as_lookup" -> as_lookup(r)
         [] h[r].pc = "as_open" -> as_open(r)
         [] h[r].pc = "as_copy" -> as_copy(r)
         [] h[r].pc = "as_emit" -> as_emit(r)
    /\ UNCHANGED <<sent, now, sweeper, s>>

\* ------------------------------------------------ GET /download/<file_id>
\* lines 375-417
download_file(r) ==
    LET m == manifests[h[r].file_id]
    IN /\ h[r].kind = "download"
       /\ InFlight(r)
       /\ h' = IF h[r].file_id \notin DOMAIN manifests
                  THEN Return(r, 404, [error |-> "File not found"], 383)
               ELSE IF m.status # "completed"
                    THEN Return(r, 409, [error |-> "File not ready for download"], 389)
               ELSE IF ~out_exists(m.filename)
                    THEN Return(r, 404, [error |-> "Assembled file not found"], 396)
               ELSE Return(r, 200, [content |-> out_content(m.filename)], 405)
       /\ UNCHANGED <<coord, faults, sent, now, sweeper, s>>

\* ------------------------------------------------------ the stale sweeper
\* the offsets of local time from UTC the host may be configured with
UtcOffsets == {-1, 0, 1}

\* line 556: the thread started when the module is loaded
Sweeper(utc_offset) == [pc |-> "sleeping", utc_offset |-> utc_offset]

\* lines 538-556: a thread that sleeps 3600 s and then runs
\* cleanup_stale_transfers once.  created_at is SQLite's CURRENT_TIMESTAMP, a
\* UTC text (line 512); stale_time is datetime.now() - 1 hour, local time
\* (line 542), bound as text; the UPDATE compares the two texts
cleanup_stale_transfers ==
    LET stale_time == now + sweeper.utc_offset - StaleHours
    IN /\ sweeper.pc = "sleeping"
       /\ now = StaleHours
       /\ db_writer = 0
       /\ manifests' = [f \in DOMAIN manifests |->
              IF manifests[f].status = "active" /\ manifests[f].created_at < stale_time
              THEN [manifests[f] EXCEPT !.status = "stale"]
              ELSE manifests[f]]
       /\ sweeper' = [sweeper EXCEPT !.pc = "done"]
       /\ UNCHANGED <<chunks, transfer_stats, staging, outputs, events, h, db_writer,
                      sent, faults, now, s>>

\* an hour passes; request handlers take far less, so none is in flight, and
\* the sweeper wakes up as soon as its hour is over
Tick ==
    /\ now < MaxHours
    /\ \A r \in Reqs : ~InFlight(r)
    /\ ~(now = StaleHours /\ sweeper.pc = "sleeping")
    /\ now' = now + 1
    /\ UNCHANGED <<coord, h, sent, faults, sweeper, s>>

\* ------------------------------------------------------------ the clients
Request(r, kind, pc, f) ==
    [Idle EXCEPT !.kind = kind, !.pc = pc, !.file_id = f,
                 !.overlap = {x \in Reqs \ {r} : InFlight(x)}]

\* a request is served by the first handler slot that is free
CanSend(r) ==
    /\ s.pc = "off"
    /\ ~InFlight(r)
    /\ \A x \in Reqs : x < r => InFlight(x)

\* the new request takes slot r; responses already delivered are dropped
Issue(r, q) ==
    h' = [x \in Reqs |-> IF x = r THEN q ELSE IF InFlight(x) THEN h[x] ELSE Idle]

\* every request a client makes is counted against the run's budget
Counted ==
    /\ sent < MaxRequests
    /\ sent' = sent + 1
    /\ UNCHANGED <<coord, faults, now, sweeper, s>>

\* the chunk uploads a client makes: bytes with their own checksum, for a
\* chunk id of the registered file or of an unknown file_id, and one upload
\* whose declared checksum is not the checksum of its bytes
ClientUploads ==
    {[file_id |-> "f1", chunk_id |-> c, data |-> d, declared |-> d] :
        c \in ClientChunkIds, d \in ClientBlobs}
    \cup {[file_id |-> "f2", chunk_id |-> 0, data |-> Range(0, 1), declared |-> Range(0, 1)],
          [file_id |-> "f1", chunk_id |-> 0, data |-> Range(0, 1), declared |-> Range(1, 2)]}

SendInit(r) ==
    /\ CanSend(r)
    /\ \E fn \in Filenames, cs \in ClientChunkSizes :
          Issue(r, [Request(r, "init", "init_db", "f1") EXCEPT
                       !.body = ManifestBody(fn, ClientFileSize, cs, split_file(ClientFileSize, cs))])
    /\ Counted

SendChunk(r) ==
    /\ CanSend(r)
    /\ \E u \in ClientUploads :
          Issue(r, [Request(r, "chunk", "validate", u.file_id) EXCEPT
                       !.chunk_id = u.chunk_id, !.data = u.data,
                       !.checksum = sha256_bytes(u.declared)])
    /\ Counted

SendMalformed(r) ==
    /\ CanSend(r)
    /\ \E wf \in Malformed :
          Issue(r, [Request(r, "chunk", "validate", "f1") EXCEPT !.wf = wf])
    /\ Counted

SendMissing(r) ==
    /\ CanSend(r)
    /\ \E f \in ClientFileIds : Issue(r, Request(r, "missing", "missing", f))
    /\ Counted

SendAssemble(r) ==
    /\ CanSend(r)
    /\ \E f \in ClientFileIds : Issue(r, Request(r, "assemble", "as_lookup", f))
    /\ Counted

SendDownload(r) ==
    /\ CanSend(r)
    /\ \E f \in ClientFileIds : Issue(r, Request(r, "download", "download", f))
    /\ Counted

\* ------------------------------------------------------------------ Init
SenderOff == [pc |-> "off"]

CoordInit ==
    /\ manifests = EmptyFun
    /\ chunks = [f \in FileIds |-> EmptyFun]
    /\ transfer_stats = [f \in FileIds |-> StatsDefault]
    /\ staging = [f \in FileIds |-> EmptyFun]
    /\ outputs = EmptyFun
    /\ events = << >>
    /\ h = [r \in Reqs |-> Idle]
    /\ db_writer = 0
    /\ sent = 0
    /\ faults = 0
    /\ now = 0
    /\ sweeper = Sweeper(0)

Init ==
    /\ CoordInit
    /\ s = SenderOff

Next ==
    \/ \E r \in Reqs : SendInit(r)
    \/ \E r \in Reqs : SendChunk(r)
    \/ \E r \in Reqs : SendMalformed(r)
    \/ \E r \in Reqs : SendMissing(r)
    \/ \E r \in Reqs : SendAssemble(r)
    \/ \E r \in Reqs : SendDownload(r)
    \/ \E r \in Reqs : upload_init(r)
    \/ \E r \in Reqs : upload_chunk(r)
    \/ \E r \in Reqs : missing(r)
    \/ \E r \in Reqs : assemble(r)
    \/ \E r \in Reqs : download_file(r)

Spec == Init /\ [][Next]_vars

\* =========================================================== the sender
\* inputs of one sender run: the file's size, --chunk-size, --max-retries
SenderFileSizes == {65536, 1048576}
SenderChunkSizes == {0, 262144}
SenderMaxRetries == {1, 2}
\* durations of a successful upload, in milliseconds
Durations == {0, 100, 1000}
SenderFileId == "f1"
SenderFilename == "a.bin"

\* fh.seek(off); fh.read(n) on a file of `size` bytes
ReadAt(size, off, n) == Range(off, Min(off + n, size))

\* ---- NetworkMonitor (lines 81-107); a rate or a mean is the pair <<p, q>> for p/q
\* a variant of record_success that never drops the oldest speed
record_success_keeping(m, bytes_sent, duration) ==
    LET speed == IF duration > 0 THEN (bytes_sent * 1000) \div duration ELSE 0
    IN [m EXCEPT !.success_count = @ + 1, !.recent_speeds = Append(@, speed)]

record_success(m, bytes_sent, duration) ==
    LET speed == IF duration > 0 THEN (bytes_sent * 1000) \div duration ELSE 0
        w == Append(m.recent_speeds, speed)
    IN [m EXCEPT !.success_count = @ + 1,
                 !.recent_speeds = IF Len(w) > SpeedWindow THEN Tail(w) ELSE w]

record_failure(m) == [m EXCEPT !.failure_count = @ + 1]

RECURSIVE SumSeq(_)
SumSeq(q) == IF q = << >> THEN 0 ELSE q[1] + SumSeq(Tail(q))

get_avg_speed(m) ==
    IF m.recent_speeds # << >> THEN <<SumSeq(m.recent_speeds), Len(m.recent_speeds)>> ELSE <<0, 1>>

get_success_rate(m) ==
    LET total == m.success_count + m.failure_count
    IN IF total > 0 THEN <<m.success_count, total>> ELSE <<1, 1>>

\* ---- adaptive_chunk_size (lines 111-122)
RECURSIVE Pow2Below(_, _)
Pow2Below(n, p) == IF 2 * p <= n THEN Pow2Below(n, 2 * p) ELSE p

\* int(x * 0.7) in IEEE double arithmetic: 0.7 is stored slightly below 7/10,
\* so an exact product 7x/10 that lies in the upper quarter of its binade
\* rounds to the double below it and truncates to one less
MulTrunc07(x) ==
    LET n == (7 * x) \div 10
    IN IF x % 10 = 0 /\ n > 0 /\ 4 * n > 7 * Pow2Below(n, 1) THEN n - 1 ELSE n

\* int(x * 1.2) in IEEE double arithmetic
MulTrunc12(x) == (12 * x) \div 10

\* a variant of adaptive_chunk_size without the floor and the ceiling
adaptive_chunk_size_unclamped(current_size, success_rate, avg_speed) ==
    IF 100 * success_rate[1] > 95 * success_rate[2] /\ avg_speed[1] > 1048576 * avg_speed[2]
    THEN MulTrunc12(current_size)
    ELSE IF 10 * success_rate[1] < 8 * success_rate[2] \/ avg_speed[1] < 102400 * avg_speed[2]
    THEN MulTrunc07(current_size)
    ELSE current_size

adaptive_chunk_size(current_size, success_rate, avg_speed) ==
    IF 100 * success_rate[1] > 95 * success_rate[2] /\ avg_speed[1] > 1048576 * avg_speed[2]
    THEN IF 12 * current_size < 10 * MAX_CHUNK_SIZE THEN MulTrunc12(current_size) ELSE MAX_CHUNK_SIZE
    ELSE IF 10 * success_rate[1] < 8 * success_rate[2] \/ avg_speed[1] < 102400 * avg_speed[2]
    THEN IF 7 * current_size > 10 * MIN_CHUNK_SIZE THEN MulTrunc07(current_size) ELSE MIN_CHUNK_SIZE
    ELSE current_size

\* ---- main (lines 258-428)
SenderSlot == CHOOSE r \in Reqs : \A x \in Reqs : r <= x

MonitorInit == [success_count |-> 0, failure_count |-> 0, recent_speeds |-> << >>]

SenderRun(size, chunk_size, max_retries) ==
    [pc |-> "start", size |-> size, chunk_size |-> chunk_size, max_retries |-> max_retries,
     file_id |-> SenderFileId, current_chunk_size |-> chunk_size, chunks_meta |-> << >>,
     missing |-> << >>, idx |-> 0, data |-> << >>,
     consecutive_failures |-> 0, retry_count |-> 0, attempt |-> 0, tries |-> 0,
     sleeps |-> 0, assembles |-> 0,
     total_bytes_transferred |-> 0, monitor |-> MonitorInit,
     assemble_result |-> None, exit_code |-> -1]

Exit(code) == [s EXCEPT !.pc = "exit", !.exit_code = code]

\* the sender's HTTP request q, served by handler slot SenderSlot
Call(q) == h' = [h EXCEPT ![SenderSlot] = q]

Answered == h[SenderSlot].pc = "done"

InitRequest(chunk_size, chunks_meta) ==
    [Request(SenderSlot, "init", "init_db", s.file_id) EXCEPT
        !.body = ManifestBody(SenderFilename, s.size, chunk_size, chunks_meta)]

ChunkRequest(chunk_id, data) ==
    [Request(SenderSlot, "chunk", "validate", s.file_id) EXCEPT
        !.chunk_id = chunk_id, !.data = data, !.checksum = sha256_bytes(data)]

\* lines 304-316: split and send the manifest
S_send_manifest ==
    /\ s.pc = "start"
    /\ LET meta == split_file(s.size, s.current_chunk_size)
       IN /\ Call(InitRequest(s.current_chunk_size, meta))
          /\ s' = [s EXCEPT !.pc = "wait_manifest", !.chunks_meta = meta]
    /\ UNCHANGED <<coord, sent, faults, now, sweeper>>

\* lines 77-79 and 316-323: raise_for_status, then the loop's counters
S_manifest_result ==
    /\ s.pc = "wait_manifest"
    /\ Answered
    /\ s' = IF h[SenderSlot].code # 200 THEN Exit(1)
            ELSE [s EXCEPT !.pc = "loop", !.retry_count = 0]
    /\ UNCHANGED <<coord, h, sent, faults, now, sweeper>>

\* line 326: get_missing
S_get_missing ==
    /\ s.pc = "loop"
    /\ Call(Request(SenderSlot, "missing", "missing", s.file_id))
    /\ s' = [s EXCEPT !.pc = "wait_missing"]
    /\ UNCHANGED <<coord, sent, faults, now, sweeper>>

\* lines 326-349: leave the loop on an empty list, adapt the chunk size, and
\* re-split and re-register when it moved more than half of --chunk-size
S_loop ==
    /\ s.pc = "wait_missing"
    /\ Answered
    /\ LET miss == h[SenderSlot].resp.missing
           new_chunk_size == adaptive_chunk_size(s.current_chunk_size,
                                 get_success_rate(s.monitor), get_avg_speed(s.monitor))
           adapt == Len(miss) > 1 /\ new_chunk_size # s.current_chunk_size
           d == new_chunk_size - s.chunk_size
           resplit == adapt /\ 2 * (IF d < 0 THEN -d ELSE d) > s.chunk_size
           meta == split_file(s.size, new_chunk_size)
       IN IF h[SenderSlot].code # 200 THEN s' = Exit(1) /\ UNCHANGED h
          ELSE IF miss = << >> THEN s' = [s EXCEPT !.pc = "assemble", !.missing = miss] /\ UNCHANGED h
          ELSE IF resplit
          THEN /\ Call(InitRequest(new_chunk_size, meta))
               /\ s' = [s EXCEPT !.pc = "wait_remanifest", !.missing = miss,
                                 !.current_chunk_size = new_chunk_size, !.chunks_meta = meta]
          ELSE /\ s' = [s EXCEPT !.pc = "chunk", !.missing = miss, !.idx = 1,
                                 !.consecutive_failures = 0,
                                 !.current_chunk_size = IF adapt THEN new_chunk_size ELSE @]
               /\ UNCHANGED h
    /\ UNCHANGED <<coord, sent, faults, now, sweeper>>

\* lines 346-347: raise_for_status, then continue
S_remanifest_result ==
    /\ s.pc = "wait_remanifest"
    /\ Answered
    /\ s' = IF h[SenderSlot].code # 200 THEN Exit(1) ELSE [s EXCEPT !.pc = "loop"]
    /\ UNCHANGED <<coord, h, sent, faults, now, sweeper>>

\* lines 352-369 and 124-149: the next missing chunk is read at
\* chunk_id * current_chunk_size and its first upload attempt is sent; the
\* end of the list goes back to the top of the loop
S_next_chunk ==
    /\ s.pc = "chunk"
    /\ IF s.idx > Len(s.missing)
       THEN s' = [s EXCEPT !.pc = "loop"] /\ UNCHANGED h
       ELSE LET chunk_id == s.missing[s.idx]
                data == ReadAt(s.size, chunk_id * s.current_chunk_size, s.current_chunk_size)
            IN IF data = << >>
               THEN s' = [s EXCEPT !.idx = @ + 1] /\ UNCHANGED h
               ELSE /\ Call(ChunkRequest(chunk_id, data))
                    /\ s' = [s EXCEPT !.pc = "wait_chunk", !.data = data,
                                      !.attempt = 1, !.tries = 0, !.sleeps = 0]
    /\ UNCHANGED <<coord, sent, faults, now, sweeper>>

\* the status codes the session's Retry adapter retries by itself (line 35)
status_forcelist == {429, 500, 502, 503, 504}

\* the status codes after which upload_chunk gives the chunk up (line 178)
PermanentCodes == {400, 404, 409}

\* a variant of more_attempts that allows one attempt more
more_attempts_overrun(attempt, max_retries) == attempt <= max_retries

\* lines 131 and 195: the for loop over range(1, max_retries + 1) goes on to
\* the backoff sleep and the next attempt while attempt < max_retries
more_attempts(attempt, max_retries) == attempt < max_retries

\* what main does with upload_chunk's result (lines 371-388)
AfterChunk(success, m) ==
    IF success
    THEN [s EXCEPT !.pc = "chunk", !.idx = @ + 1, !.monitor = m,
                   !.total_bytes_transferred = @ + ByteLen(s.data),
                   !.consecutive_failures = 0, !.retry_count = 0]
    ELSE IF s.consecutive_failures + 1 >= max_consecutive_failures
    THEN [Exit(2) EXCEPT !.monitor = m, !.consecutive_failures = @ + 1, !.retry_count = @ + 1]
    ELSE IF s.retry_count + 1 > s.max_retries * 2
    THEN [Exit(2) EXCEPT !.monitor = m, !.consecutive_failures = @ + 1, !.retry_count = @ + 1]
    ELSE [s EXCEPT !.pc = "loop", !.monitor = m,
                   !.consecutive_failures = @ + 1, !.retry_count = @ + 1]

\* lines 144-208: one response to an upload attempt.  The adapter resends a
\* request answered with a status of status_forcelist up to RetryTotal times
\* and then raises; 200 is a success; 400, 404 and 409 end the chunk; any
\* other failure is retried, after the time.sleep(backoff) of line 204, while
\* attempt < max_retries; sleeps counts those sleeps of the current call
S_chunk_response ==
    /\ s.pc = "wait_chunk"
    /\ Answered
    /\ LET code == h[SenderSlot].code
           chunk_id == s.missing[s.idx]
           failed == record_failure(s.monitor)
       IN IF code \in status_forcelist /\ s.tries < RetryTotal
          THEN /\ Call(ChunkRequest(chunk_id, s.data))
               /\ s' = [s EXCEPT !.tries = @ + 1]
          ELSE IF code = 200
          THEN /\ \E duration \in Durations :
                     s' = AfterChunk(TRUE, record_success(s.monitor, ByteLen(s.data), duration))
               /\ UNCHANGED h
          ELSE IF code \in PermanentCodes
          THEN s' = AfterChunk(FALSE, failed) /\ UNCHANGED h
          ELSE IF more_attempts(s.attempt, s.max_retries)
          THEN /\ Call(ChunkRequest(chunk_id, s.data))
               /\ s' = [s EXCEPT !.attempt = @ + 1, !.tries = 0, !.monitor = failed,
                                 !.sleeps = @ + 1]
          ELSE s' = AfterChunk(FALSE, failed) /\ UNCHANGED h
    /\ UNCHANGED <<coord, sent, faults, now, sweeper>>

\* line 398; assembles counts the /assemble requests of the run
S_assemble ==
    /\ s.pc = "assemble"
    /\ Call(Request(SenderSlot, "assemble", "as_lookup", s.file_id))
    /\ s' = [s EXCEPT !.pc = "wait_assemble", !.assembles = @ + 1]
    /\ UNCHANGED <<coord, sent, faults, now, sweeper>>

\* r.json() of lines 213 and 217 parses the body: the page a server sends for
\* an unhandled exception is HTML, written as a response with a field html
is_json(resp) == "html" \notin DOMAIN resp

\* assembly_result.get('status') == 'ok' (line 400)
status_ok(resp) == "status" \in DOMAIN resp /\ resp.status = "ok"

\* lines 215-217 and 398-426: requests.post raising (status 0) or r.json()
\* failing on a body that is not JSON ends in the handler of line 424 with
\* exit code 1; a JSON body without status ok is exit code 3; the status code
\* of the response is not looked at
S_assemble_result ==
    /\ s.pc = "wait_assemble"
    /\ Answered
    /\ s' = IF h[SenderSlot].code = 0 \/ ~is_json(h[SenderSlot].resp)
            THEN [Exit(1) EXCEPT !.assemble_result = "exception"]
            ELSE IF status_ok(h[SenderSlot].resp)
            THEN [Exit(0) EXCEPT !.assemble_result = "ok"]
            ELSE [Exit(3) EXCEPT !.assemble_result = "error"]
    /\ UNCHANGED <<coord, h, sent, faults, now, sweeper>>

\* one sender against a coordinator without disk failures and without clients
SenderInit ==
    /\ manifests = EmptyFun
    /\ chunks = [f \in FileIds |-> EmptyFun]
    /\ transfer_stats = [f \in FileIds |-> StatsDefault]
    /\ staging = [f \in FileIds |-> EmptyFun]
    /\ outputs = EmptyFun
    /\ events = << >>
    /\ h = [r \in Reqs |-> Idle]
    /\ db_writer = 0
    /\ sent = 0
    /\ faults = MaxFaults
    /\ now = 0
    /\ sweeper = Sweeper(0)
    /\ \E size \in SenderFileSizes, chunk_size \in SenderChunkSizes, max_retries \in SenderMaxRetries :
          s = SenderRun(size, chunk_size, max_retries)

SenderNext ==
    \/ S_send_manifest
    \/ S_manifest_result
    \/ S_get_missing
    \/ S_loop
    \/ S_remanifest_result
    \/ S_next_chunk
    \/ S_chunk_response
    \/ S_assemble
    \/ S_assemble_result
    \/ upload_init(SenderSlot)
    \/ upload_chunk(SenderSlot)
    \/ missing(SenderSlot)
    \/ assemble(SenderSlot)

SenderSpec == SenderInit /\ [][SenderNext]_vars

\* ================================================= clients and the sweeper
\* the coordinator over its first hours: clients that register and upload,
\* the wall clock, and the sweeper thread, on a host in any of UtcOffsets
SweepInit ==
    /\ manifests = EmptyFun
    /\ chunks = [f \in FileIds |-> EmptyFun]
    /\ transfer_stats = [f \in FileIds |-> StatsDefault]
    /\ staging = [f \in FileIds |-> EmptyFun]
    /\ outputs = EmptyFun
    /\ events = << >>
    /\ h = [r \in Reqs |-> Idle]
    /\ db_writer = 0
    /\ sent = 0
    /\ faults = 0
    /\ now = 0
    /\ \E utc_offset \in UtcOffsets : sweeper = Sweeper(utc_offset)
    /\ s = SenderOff

\* these clients wait for an answer before they send the next request
Quiet == \A r \in Reqs : ~InFlight(r)

SweepNext ==
    \/ \E r \in Reqs : Quiet /\ SendInit(r)
    \/ \E r \in Reqs : Quiet /\ SendChunk(r)
    \/ \E r \in Reqs : upload_init(r)
    \/ \E r \in Reqs : upload_chunk(r)
    \/ Tick
    \/ cleanup_stale_transfers

SweepSpec == SweepInit /\ [][SweepNext]_vars

\* a handler that has work to do gets to do it, the clock does not stop before
\* MaxHours, and the sweeper thread runs once its sleep is over
SweepLiveSpec ==
    /\ SweepSpec
    /\ \A r \in Reqs : WF_vars(upload_init(r)) /\ WF_vars(upload_chunk(r))
    /\ WF_vars(Tick)
    /\ WF_vars(cleanup_stale_transfers)

\* ============================================= clients that assemble twice
\* the coordinator after a client has registered ClientFile as f1 with
\* chunk_size cs and has uploaded every chunk: the chunk files are staged, the
\* uploads were answered 500 (line 259) after the counters of lines 200-201
\* were incremented, and the rows still have received = 0
StagedInit ==
    \E cs \in ClientChunkSizes :
       LET meta == split_file(ClientFileSize, cs)
           ids == {meta[k].chunk_id : k \in DOMAIN meta}
       IN /\ manifests = [f \in {"f1"} |->
                 [filename |-> "a.bin", size |-> ClientFileSize, chunk_size |-> cs,
                  total_chunks |-> Len(meta), status |-> "active", created_at |-> 0]]
          /\ chunks = [f \in FileIds |->
                 IF f = "f1"
                 THEN [c \in ids |-> [checksum |-> meta[c + 1].checksum, received |-> 0,
                                      retry_count |-> 0]]
                 ELSE EmptyFun]
          /\ transfer_stats = [f \in FileIds |->
                 IF f = "f1"
                 THEN [StatsDefault EXCEPT !.bytes_received = ClientFileSize,
                                           !.chunks_received = Len(meta)]
                 ELSE StatsDefault]
          /\ staging = [f \in FileIds |->
                 IF f = "f1"
                 THEN [c \in ids |-> Range(c * cs, Min((c + 1) * cs, ClientFileSize))]
                 ELSE EmptyFun]
          /\ outputs = EmptyFun
          /\ events = << [kind |-> "manifest", file_id |-> "f1", chunk_id |-> -1,
                          received |-> -1, total |-> Len(meta)] >>
          /\ h = [r \in Reqs |-> Idle]
          /\ db_writer = 0
          /\ sent = 0
          /\ faults = 0
          /\ now = 0
          /\ sweeper = Sweeper(0)
          /\ s = SenderOff

\* a client that has the ok answer of /assemble in hand calls /assemble for
\* the same file_id again, no request having been sent in between and none
\* having been handled beside the first call; the request record keeps the
\* answer and the artifact of the first call (bookkeeping for the properties)
SendAssembleAgain(r) ==
    /\ s.pc = "off"
    /\ Quiet
    /\ h[r] = Idle
    /\ \E x \in Reqs \ {r} :
          /\ h[x].pc = "done" /\ h[x].kind = "assemble" /\ h[x].code = 200
          /\ h' = [h EXCEPT ![r] =
                 Request(r, "assemble", "as_lookup", h[x].file_id)
                    @@ [first |-> [path |-> h[x].resp.path,
                                   content |-> outputs[h[x].resp.path]]]]
    /\ Counted

StagedNext ==
    \/ \E r \in Reqs : Quiet /\ SendChunk(r)
    \/ \E r \in Reqs : SendAssemble(r)
    \/ \E r \in Reqs : SendAssembleAgain(r)
    \/ \E r \in Reqs : upload_chunk(r)
    \/ \E r \in Reqs : assemble(r)

StagedSpec == StagedInit /\ [][StagedNext]_vars

\* ============================================ a second transfer, same filename
\* f1 is registered and staged; another client registers the file_id f2 with a
\* filename of its own choice, which may be the one f1 was registered with,
\* uploads to it and asks for its assembly, while f1 is assembled
OtherFileId == "f2"

SendOtherInit(r) ==
    /\ CanSend(r)
    /\ \E fn \in Filenames, cs \in ClientChunkSizes :
          Issue(r, [Request(r, "init", "init_db", OtherFileId) EXCEPT
                       !.body = ManifestBody(fn, ClientFileSize, cs, split_file(ClientFileSize, cs))])
    /\ Counted

OtherNext ==
    \/ \E r \in Reqs : Quiet /\ SendOtherInit(r)
    \/ \E r \in Reqs : Quiet /\ SendChunk(r)
    \/ \E r \in Reqs : Quiet /\ SendAssemble(r)
    \/ \E r \in Reqs : upload_init(r)
    \/ \E r \in Reqs : upload_chunk(r)
    \/ \E r \in Reqs : assemble(r)

OtherSpec == StagedInit /\ [][OtherNext]_vars

\* ===================================== a client that picks the names itself
\* file_id and filename are strings of the client; neither upload_init nor
\* upload_chunk restricts them.  This client registers AliasFileId with the
\* filename AliasFilename, uploads its chunks and asks for the assembly
SendAliasInit(r) ==
    /\ CanSend(r)
    /\ \E cs \in ClientChunkSizes :
          Issue(r, [Request(r, "init", "init_db", AliasFileId) EXCEPT
                       !.body = ManifestBody(AliasFilename, ClientFileSize, cs,
                                             split_file(ClientFileSize, cs))])
    /\ Counted

SendAliasChunk(r) ==
    /\ CanSend(r)
    /\ \E c \in ClientChunkIds, d \in ClientBlobs :
          Issue(r, [Request(r, "chunk", "validate", AliasFileId) EXCEPT
                       !.chunk_id = c, !.data = d, !.checksum = sha256_bytes(d)])
    /\ Counted

SendAliasAssemble(r) ==
    /\ CanSend(r)
    /\ Issue(r, Request(r, "assemble", "as_lookup", AliasFileId))
    /\ Counted

\* the disk does not fail in these behaviours
AliasInit ==
    /\ manifests = EmptyFun
    /\ chunks = [f \in FileIds |-> EmptyFun]
    /\ transfer_stats = [f \in FileIds |-> StatsDefault]
    /\ staging = [f \in FileIds |-> EmptyFun]
    /\ outputs = EmptyFun
    /\ events = << >>
    /\ h = [r \in Reqs |-> Idle]
    /\ db_writer = 0
    /\ sent = 0
    /\ faults = MaxFaults
    /\ now = 0
    /\ sweeper = Sweeper(0)
    /\ s = SenderOff

AliasNext ==
    \/ \E r \in Reqs : SendAliasInit(r)
    \/ \E r \in Reqs : SendAliasChunk(r)
    \/ \E r \in Reqs : SendAliasAssemble(r)
    \/ \E r \in Reqs : upload_init(r)
    \/ \E r \in Reqs : upload_chunk(r)
    \/ \E r \in Reqs : assemble(r)

AliasSpec == AliasInit /\ [][AliasNext]_vars

\* ================================================= adaptive_chunk_size alone
\* the arguments of adaptive_chunk_size: sizes at and next to the floor, the
\* ceiling and the sizes whose product with 0.7 or 1.2 crosses them; rates and
\* speeds (bytes per second) at and on both sides of the function's thresholds
AdaptSizes ==
    {MIN_CHUNK_SIZE, MIN_CHUNK_SIZE + 1, 93622, 93623, 100000, 262144, 1048576,
     8738133, 8738134, MAX_CHUNK_SIZE - 1, MAX_CHUNK_SIZE}

AdaptRates == {<<0, 1>>, <<1, 2>>, <<79, 100>>, <<4, 5>>, <<19, 20>>, <<24, 25>>, <<1, 1>>}

AdaptSpeeds ==
    {<<0, 1>>, <<102399, 1>>, <<102400, 1>>, <<1048576, 1>>, <<1048577, 1>>, <<2097152, 1>>}

AdaptInit ==
    /\ CoordInit
    /\ \E current_size \in AdaptSizes, success_rate \in AdaptRates, avg_speed \in AdaptSpeeds :
          s = [pc |-> "adapt", current_size |-> current_size,
               success_rate |-> success_rate, avg_speed |-> avg_speed, new_size |-> 0]

\* line 336: new_chunk_size = adaptive_chunk_size(current_chunk_size, ...)
Adapt ==
    /\ s.pc = "adapt"
    /\ s' = [s EXCEPT !.pc = "adapted",
                      !.new_size = adaptive_chunk_size(s.current_size, s.success_rate, s.avg_speed)]
    /\ UNCHANGED <<coord, h, sent, faults, now, sweeper>>

\* lines 338-341: a changed size becomes the current one of the next pass
Readapt ==
    /\ s.pc = "adapted"
    /\ s.new_size # s.current_size
    /\ s' = [s EXCEPT !.pc = "adapt", !.current_size = s.new_size]
    /\ UNCHANGED <<coord, h, sent, faults, now, sweeper>>

AdaptNext ==
    \/ Adapt
    \/ Readapt

AdaptSpec == AdaptInit /\ [][AdaptNext]_vars

\* ==================================================== NetworkMonitor alone
\* the arguments of record_success: a chunk length in bytes and durations in
\* milliseconds, time.time() being a wall clock that can stand still or step back
MonitorBytes == {65536}
MonitorDurations == {-100, 0, 1000}

\* a fresh NetworkMonitor (lines 83-87 and 109), with the record of the calls
\* made on it: every speed recorded, in order, and the number of failures
MonitorAloneInit ==
    /\ CoordInit
    /\ s = [pc |-> "monitor", monitor |-> MonitorInit, speeds |-> << >>, failures |-> 0]

\* line 154: network_monitor.record_success(chunk_size, duration)
M_record_success ==
    /\ Len(s.speeds) + s.failures < MaxRecords
    /\ \E bytes_sent \in MonitorBytes, duration \in MonitorDurations :
          s' = [s EXCEPT !.monitor = record_success(@, bytes_sent, duration),
                         !.speeds = Append(@, IF duration <= 0 THEN 0
                                              ELSE (bytes_sent * 1000) \div duration)]
    /\ UNCHANGED <<coord, h, sent, faults, now, sweeper>>

\* lines 166, 183, 187 and 191: network_monitor.record_failure()
M_record_failure ==
    /\ Len(s.speeds) + s.failures < MaxRecords
    /\ s' = [s EXCEPT !.monitor = record_failure(@), !.failures = @ + 1]
    /\ UNCHANGED <<coord, h, sent, faults, now, sweeper>>

MonitorNext ==
    \/ M_record_success
    \/ M_record_failure

MonitorSpec == MonitorAloneInit /\ [][MonitorNext]_vars

\* ======================================== the sender against any HTTP server
\* --server may name any server.  What session.post and session.get return to
\* the sender is an input of the run: a status code with a body, or an
\* exception (Timeout, ConnectionError), written as status 0
AnswerCodes == {0, 200, 400, 404, 409, 500}

\* the lists a server may answer to GET /upload/missing: none, all, all but
\* the first, or only the first of the chunk ids of the posted manifest
MissingAnswers ==
    LET ids == {s.chunks_meta[k].chunk_id : k \in DOMAIN s.chunks_meta}
        first == {c \in ids : \A x \in ids : c <= x}
    IN {SortedSeq(M) : M \in {{}, ids, ids \ first, first}}

Respond ==
    LET q == h[SenderSlot]
        answer(code, resp) == h' = Return(SenderSlot, code, resp, 0)
    IN /\ InFlight(SenderSlot)
       /\ sent < MaxAnswers
       /\ sent' = sent + 1
       /\ CASE q.kind = "init" -> \E code \in {200, 500} : answer(code, [status |-> "ok"])
            [] q.kind = "missing" -> \E M \in MissingAnswers : answer(200, [missing |-> M])
            [] q.kind = "chunk" -> \E code \in AnswerCodes : answer(code, [status |-> "ok"])
            [] q.kind = "assemble" ->
                  \/ answer(200, [status |-> "ok", path |-> SenderFilename])
                  \/ answer(400, [error |-> "missing chunk", index |-> 0])
                  \/ answer(500, [html |-> "Internal Server Error"])
                  \/ answer(0, [status |-> None])
       /\ UNCHANGED <<coord, faults, now, sweeper, s>>

SenderNetNext ==
    \/ S_send_manifest
    \/ S_manifest_result
    \/ S_get_missing
    \/ S_loop
    \/ S_remanifest_result
    \/ S_next_chunk
    \/ S_chunk_response
    \/ S_assemble
    \/ S_assemble_result
    \/ Respond

SenderNetSpec == SenderInit /\ [][SenderNetNext]_vars

\* ------------------------------------------ a server that always answers
\* the lists a coordinator that has received all chunks but the last ones
\* answers to GET /upload/missing: the last two chunk ids of the posted
\* manifest, the last one, or none
MissingTails ==
    LET n == Len(s.chunks_meta)
        ids == {s.chunks_meta[k].chunk_id : k \in DOMAIN s.chunks_meta}
    IN {SortedSeq({c \in ids : c >= lo}) : lo \in {n - 2, n - 1, n}}

\* the request in flight is an upload that the bound MaxUploads leaves unanswered
Starved == InFlight(SenderSlot) /\ h[SenderSlot].kind = "chunk" /\ sent >= MaxUploads

\* every request is answered; sent counts the answers to /upload/chunk only
Serve ==
    LET q == h[SenderSlot]
        answer(code, resp) == h' = Return(SenderSlot, code, resp, 0)
    IN /\ InFlight(SenderSlot)
       /\ ~Starved
       /\ sent' = IF q.kind = "chunk" THEN sent + 1 ELSE sent
       /\ CASE q.kind = "init" -> answer(200, [status |-> "ok"])
            [] q.kind = "missing" -> \E M \in MissingTails : answer(200, [missing |-> M])
            [] q.kind = "chunk" -> \E code \in {0, 200} : answer(code, [status |-> "ok"])
            [] q.kind = "assemble" ->
                  \/ answer(200, [status |-> "ok", path |-> SenderFilename])
                  \/ answer(400, [error |-> "missing chunk", index |-> 0])
       /\ UNCHANGED <<coord, faults, now, sweeper, s>>

\* the steps of the sender's main
SenderSteps ==
    \/ S_send_manifest
    \/ S_manifest_result
    \/ S_get_missing
    \/ S_loop
    \/ S_remanifest_result
    \/ S_next_chunk
    \/ S_chunk_response
    \/ S_assemble
    \/ S_assemble_result

SenderServedNext ==
    \/ SenderSteps
    \/ Serve

SenderServedSpec == SenderInit /\ [][SenderServedNext]_vars

\* the sender's process keeps running and the server keeps answering
SenderServedLiveSpec == SenderServedSpec /\ WF_vars(SenderSteps) /\ WF_vars(Serve)

\* lines 418-422: Ctrl-C raises KeyboardInterrupt wherever main is inside
\* its try block, and the run exits with 130
S_interrupt ==
    /\ s.pc \notin {"start", "exit"}
    /\ s' = Exit(130)
    /\ UNCHANGED <<coord, h, sent, faults, now, sweeper>>

\* the sender against any server, with a user who may interrupt it
SenderIntNext ==
    \/ SenderNetNext
    \/ S_interrupt

SenderIntSpec == SenderInit /\ [][SenderIntNext]_vars

\* ============================================================ properties
Done(r, kind) == h[r].pc = "done" /\ h[r].kind = kind

CountEvents(kind, f) ==
    Cardinality({k \in DOMAIN events : events[k].kind = kind /\ events[k].file_id = f})

\* the upload handler got past the staging write (line 187): the request was
\* well formed, its bytes matched its checksum, the manifest was active, the
\* chunk row had received = 0 and the disk write succeeded
PastWrite(r) == Done(r, "chunk") /\ h[r].ret \in {251, 259}

\* every upload that gets past the staging write raises at line 208 and is
\* rolled back, so no chunk row is ever committed with received = 1 ...
NoChunkRowReceived ==
    \A f \in FileIds : \A c \in DOMAIN chunks[f] : chunks[f][c].received = 0

\* ... the duplicate branch (lines 166-178) is never taken, and neither a chunk
\* event nor a transfer_complete event is ever published
NoDuplicateNoProgressEvent ==
    /\ \A r \in Reqs : h[r].ret # 178
    /\ \A k \in DOMAIN events : events[k].kind \notin {"chunk", "transfer_complete"}

\* C1: whenever a sender run ends with /assemble answering ok, the assembled
\* artifact is byte for byte the sender's file
C1_RoundTrip ==
    (s.pc = "exit" /\ s.assemble_result = "ok")
        => (SenderFilename \in DOMAIN outputs /\ outputs[SenderFilename] = Range(0, s.size))

\* C2: a checksum-valid upload of a chunk not yet received, to an active
\* manifest, whose disk write succeeds, ends with the row committed as
\* received = 1 and a 200 response carrying the received and total counts
C2_FreshChunkAccepted ==
    \A r \in Reqs :
        PastWrite(r) =>
            /\ h[r].code = 200
            /\ h[r].resp.status = "ok"
            /\ chunks[h[r].file_id][h[r].chunk_id].received = 1
            /\ h[r].resp.received = count_received(chunks, h[r].file_id)
            /\ h[r].resp.total = manifests[h[r].file_id].total_chunks

\* C3: a fault-free run of one sender for a file of N >= 1 chunks ends with
\* exit code 0, exactly N chunk events, exactly one transfer_complete event
\* and every chunk row received
C3_HappyPath ==
    (s.pc = "exit" /\ s.chunk_size > 0) =>
        /\ s.exit_code = 0
        /\ CountEvents("chunk", s.file_id) = Len(split_file(s.size, s.chunk_size))
        /\ CountEvents("transfer_complete", s.file_id) = 1
        /\ \A c \in DOMAIN chunks[s.file_id] : chunks[s.file_id][c].received = 1

\* C4: whenever /assemble/<file_id> has answered ok, the artifact exists and
\* the manifest status is completed, so /download/<file_id> does not answer 409
C4_AssembleCompletes ==
    \A r \in Reqs :
        (Done(r, "assemble") /\ h[r].ret = 295) =>
            /\ h[r].manifest.filename \in DOMAIN outputs
            /\ manifests[h[r].file_id].status = "completed"

\* C5: posting the manifest a file_id already has is answered with status
\* resumed and the number of chunks already received, and leaves the received
\* flags as they were
C5_InitResumes ==
    \A r \in Reqs :
        (Done(r, "init") /\ h[r].prior >= 0) =>
            /\ h[r].resp.status = "resumed"
            /\ h[r].resp.received_chunks = h[r].prior

\* C7: of two uploads of the same not yet received chunk handled concurrently,
\* exactly one is a non-duplicate acceptance and the other is answered with
\* duplicate = true
C7_ConcurrentDuplicate ==
    \A a, b \in Reqs :
        ( /\ a # b
          /\ Done(a, "chunk") /\ Done(b, "chunk")
          /\ h[a].file_id = h[b].file_id /\ h[a].chunk_id = h[b].chunk_id
          /\ (a \in h[b].overlap \/ b \in h[a].overlap)
          /\ h[a].ret \in {178, 251, 259} /\ h[b].ret \in {178, 251, 259} )
        => \/ (h[a].ret = 251 /\ h[b].ret = 178)
           \/ (h[a].ret = 178 /\ h[b].ret = 251)

\* C9: a chunk row with received = 1 never returns to received = 0, and the
\* missing list of a registered file_id never gains an element
C9_MissingNeverGains ==
    [][\A f \in DOMAIN manifests :
          /\ \A c \in DOMAIN chunks[f] : chunks[f][c].received = 1 => chunks'[f][c].received = 1
          /\ list_missing(chunks', f) \subseteq list_missing(chunks, f)]_vars

\* the step in which handler r rejects a checksum that does not match
MismatchStep(r) ==
    /\ h[r].kind = "chunk" /\ h[r].pc = "mismatch" /\ h'[r].pc = "done"

\* C10: an upload whose bytes do not hash to the declared checksum is answered
\* 400, adds exactly 1 to the transfer's errors counter, publishes one error
\* event, and changes no staged file, no manifest row and no chunk row
C10_ChecksumMismatch ==
    [][\A r \in Reqs :
          MismatchStep(r) =>
              /\ h'[r].code = 400
              /\ transfer_stats'[h[r].file_id].errors = transfer_stats[h[r].file_id].errors + 1
              /\ \A f \in FileIds \ {h[r].file_id} : transfer_stats'[f] = transfer_stats[f]
              /\ events' = Append(events, [kind |-> "error", file_id |-> h[r].file_id,
                                           chunk_id |-> h[r].chunk_id, received |-> -1, total |-> -1])
              /\ staging' = staging
              /\ outputs' = outputs
              /\ manifests' = manifests
              /\ chunks' = chunks]_vars

\* ---------------------------------------------------------------------- C11
\* the upload of handler r carries bytes whose hash is not the checksum stored
\* for its chunk row at manifest init
AgainstIntent(r) ==
    LET f == h[r].file_id
        c == h[r].chunk_id
    IN /\ h[r].kind = "chunk"
       /\ h[r].wf = "ok"
       /\ f \in DOMAIN manifests
       /\ c \in DOMAIN chunks[f]
       /\ sha256_bytes(h[r].data) # chunks[f][c].checksum

\* C11: a chunk row with received = 1 has a staged file whose SHA-256 is the
\* checksum stored for the row at manifest init, and an upload whose bytes hash
\* to another checksum than the stored one is refused: its handler never gets
\* to the staging write nor to the UPDATE that marks the row
C11_IntegrityAgainstIntent ==
    /\ \A f \in FileIds : \A c \in DOMAIN chunks[f] :
          chunks[f][c].received = 1 =>
             /\ c \in DOMAIN staging[f]
             /\ sha256_bytes(staging[f][c]) = chunks[f][c].checksum
    /\ \A r \in Reqs :
          AgainstIntent(r) => h[r].pc \notin {"write", "mark", "stats", "commit", "emit"}

\* ---------------------------------------------------------------------- C12
\* handler r has executed the UPDATE of line 193: in its transaction, and in
\* the database once it has committed, its chunk row has received = 1
HasMarked(r) == h[r].kind = "chunk" /\ h[r].pc \in {"stats", "commit", "emit"}

\* C12: wherever a chunk row has received = 1, in the database or in the
\* transaction of a handler that has run its UPDATE, the chunk's staged file
\* is present, whatever steps other handlers have taken or failed at
C12_BytesBeforeFlag ==
    /\ \A f \in FileIds : \A c \in DOMAIN chunks[f] :
          chunks[f][c].received = 1 => c \in DOMAIN staging[f]
    /\ \A r \in Reqs :
          HasMarked(r) => h[r].chunk_id \in DOMAIN staging[h[r].file_id]

\* a handler holds the write lock after its UPDATE, its row reads received = 1
\* in its transaction, while another upload has failed on the disk
C12_Witness ==
    \E r \in Reqs :
       /\ HasMarked(r)
       /\ db_writer = r
       /\ Marked(h[r].file_id, h[r].chunk_id)[h[r].file_id][h[r].chunk_id].received = 1
       /\ h[r].chunk_id \in DOMAIN staging[h[r].file_id]
       /\ faults > 0

\* ---------------------------------------------------------------------- C13
\* C13: once every /upload/chunk request for a transfer has been answered, the
\* number of its chunk rows with received = 1 is the number of chunk files in
\* its staging directory
C13_StoreStagingAgreement ==
    Quiet => \A f \in FileIds : count_received(chunks, f) = Cardinality(DOMAIN staging[f])

\* ---------------------------------------------------------------------- C14
\* C14: whenever /assemble/<file_id> has answered ok, the assembled artifact
\* has as many bytes as the size recorded in the manifest of that file_id
C14_AssembledLength ==
    \A r \in Reqs :
       (Done(r, "assemble") /\ h[r].code = 200) =>
          LET m == manifests[h[r].file_id]
          IN /\ m.filename \in DOMAIN outputs
             /\ ByteLen(outputs[m.filename]) = m.size

\* ---------------------------------------------------------------------- C15
\* the step is one of the /upload/chunk handler r
ChunkStep(r) == h[r].kind = "chunk" /\ InFlight(r) /\ h'[r] # h[r]

C16_StatusLifecycle ==
    [][\A f \in DOMAIN manifests :
          /\ f \in DOMAIN manifests'
          /\ manifests'[f].status # manifests[f].status =>
                /\ manifests[f].status = "active"
                /\ manifests'[f].status \in {"completed", "stale", "failed"}]_vars

\* ---------------------------------------------------------------------- C17
\* manifest f has been active for more than StaleHours since its creation
Overdue(f) ==
    /\ f \in DOMAIN manifests
    /\ manifests[f].status = "active"
    /\ now - manifests[f].created_at > StaleHours

\* C17: while the coordinator runs, a manifest that has been active for more
\* than one hour since its creation is eventually set to stale by the sweeper
\* (or has been replaced by a younger one), whenever it was created
C17_StaleSweepLiveness ==
    \A f \in FileIds : Overdue(f) ~> ~Overdue(f)

\* ---------------------------------------------------------------------- C18
\* the step is one of the /assemble handler r
AssembleStep(r) == h[r].kind = "assemble" /\ InFlight(r) /\ h'[r] # h[r]

NoArtifactBefore(r) ==
    /\ \A k \in DOMAIN events : events[k].kind # "assembled"
    /\ \A x \in Reqs \ {r} : ~(h[x].kind = "assemble" /\ InFlight(x))

\* C19: when /assemble has answered that a chunk is missing, the manifest is
\* still active and the output path holds no partly written artifact: where no
\* artifact had been produced before, there is no output file
C19_NoPartialOutput ==
    \A r \in Reqs :
       (Done(r, "assemble") /\ h[r].code = 400) =>
          /\ manifests[h[r].file_id].status = "active"
          /\ NoArtifactBefore(r) => manifests[h[r].file_id].filename \notin DOMAIN outputs

\* ---------------------------------------------------------------------- C20
\* handler r serves the second of two /assemble calls made in a row
Again(r) == h[r].kind = "assemble" /\ "first" \in DOMAIN h[r]

\* C20: the second of two /assemble calls in a row, with no request sent in
\* between, is answered ok with the path of the first answer, and the artifact
\* then has the content it had after the first call
C20_AssembleIdempotent ==
    \A r \in Reqs :
       (Again(r) /\ h[r].pc = "done" /\ \A x \in Reqs \ {r} : h[x].pc = "done") =>
          /\ h[r].code = 200
          /\ h[r].resp.status = "ok"
          /\ h[r].resp.path = h[r].first.path
          /\ h[r].resp.path \in DOMAIN outputs
          /\ outputs[h[r].resp.path] = h[r].first.content

\* the second call has been answered, after a first call that produced the
\* whole of ClientFile
C20_Witness ==
    \E r \in Reqs :
       /\ Again(r)
       /\ h[r].pc = "done"
       /\ h[r].code = 200
       /\ h[r].first.content = ClientFile
       /\ outputs[h[r].resp.path] = ClientFile

\* ---------------------------------------------------------------------- C21
\* C21: no step of an /assemble handler, whether the request ends with ok or
\* with an error, changes a chunk row, removes a staged chunk file or changes
\* the content of one
C21_AssemblerFrame ==
    [][\A r \in Reqs : AssembleStep(r) => (chunks' = chunks /\ staging' = staging)]_vars

\* ---------------------------------------------------------------------- C22
\* C22: the step of the sender that receives 400, 404 or 409 for an upload of
\* chunk c ends the run with a nonzero exit code, so that no further
\* /upload/chunk request for c is sent in that run
C22_PermanentErrorStops ==
    [][(s.pc = "wait_chunk" /\ Answered /\ h[SenderSlot].code \in PermanentCodes)
          => (s'.pc = "exit" /\ s'.exit_code # 0)]_vars

\* ---------------------------------------------------------------------- C23
\* C23: a run ends with exit code 2 exactly when 5 chunk uploads in a row have
\* failed, whatever max_retries is: not on fewer, and not later than the fifth
C23_AbortAtFiveFailures ==
    /\ (s.pc = "exit" /\ s.exit_code = 2) => s.retry_count = max_consecutive_failures
    /\ s.retry_count >= max_consecutive_failures => (s.pc = "exit" /\ s.exit_code = 2)

C25_RegisteredBoundaries ==
    (s.pc = "wait_chunk" /\ s.file_id \in DOMAIN manifests) =>
        LET q == h[SenderSlot]
            registered == manifests[s.file_id].chunk_size
        IN /\ q.chunk_id \in DOMAIN chunks[s.file_id]
           /\ q.data = ReadAt(s.size, q.chunk_id * registered, registered)
           /\ q.checksum = chunks[s.file_id][q.chunk_id].checksum

\* ---------------------------------------------------------------------- C26
\* C26: for a current size S between 64 KiB and 10 MiB the result of
\* adaptive_chunk_size lies between 64 KiB and 10 MiB; it is above S when the
\* success rate is over 0.95, the speed over 1 MiB/s and S below 10 MiB; it is
\* below S when the success rate is under 0.8 or the speed under 100 KiB/s and
\* S is above 64 KiB; in every other case it is S
C26_AdaptivePolicy ==
    (s.pc = "adapted" /\ MIN_CHUNK_SIZE <= s.current_size /\ s.current_size <= MAX_CHUNK_SIZE) =>
        LET S == s.current_size
            good == /\ 100 * s.success_rate[1] > 95 * s.success_rate[2]
                    /\ s.avg_speed[1] > 1024 * 1024 * s.avg_speed[2]
            poor == \/ 10 * s.success_rate[1] < 8 * s.success_rate[2]
                    \/ s.avg_speed[1] < 100 * 1024 * s.avg_speed[2]
        IN /\ MIN_CHUNK_SIZE <= s.new_size /\ s.new_size <= MAX_CHUNK_SIZE
           /\ (good /\ S < MAX_CHUNK_SIZE) => s.new_size > S
           /\ (poor /\ S > MIN_CHUNK_SIZE) => s.new_size < S
           /\ (good /\ S = MAX_CHUNK_SIZE) => s.new_size = S
           /\ (poor /\ S = MIN_CHUNK_SIZE) => s.new_size = S
           /\ (~good /\ ~poor) => s.new_size = S

\* a size just above the floor has been shrunk to the floor, and not to 0.7
\* times itself, at a success rate of one half
C26_Witness ==
    /\ s.pc = "adapted"
    /\ s.current_size > MIN_CHUNK_SIZE /\ s.current_size < 93622
    /\ s.new_size = MIN_CHUNK_SIZE
    /\ s.success_rate = <<1, 2>>

\* ---------------------------------------------------------------------- C28
\* C28: the chunk rows of every registered file_id are exactly the rows with
\* chunk_id 0 .. total_chunks - 1 of its manifest, also after the file_id has
\* been registered again with another number of chunks
C28_ChunkRowShape ==
    \A f \in DOMAIN manifests : DOMAIN chunks[f] = 0 .. (manifests[f].total_chunks - 1)

\* ---------------------------------------------------------------------- C29
\* C29: an /upload/chunk request for a chunk_id outside 0 .. total_chunks - 1
\* of the manifest the handler read ends with a client error and has staged
\* and marked nothing, and no more rows of a file_id are marked received than
\* its manifest has chunks
C29_ChunkIdRange ==
    /\ \A r \in Reqs :
          (/\ Done(r, "chunk")
           /\ h[r].manifest.total_chunks >= 0
           /\ h[r].chunk_id \notin 0 .. (h[r].manifest.total_chunks - 1))
          => (h[r].code \in 400 .. 499 /\ h[r].ret < 181)
    /\ \A f \in DOMAIN manifests :
          Cardinality({c \in DOMAIN chunks[f] : chunks[f][c].received = 1})
             <= manifests[f].total_chunks

\* ---------------------------------------------------------------------- C30
\* C30: /assemble answers ok only when every chunk row of the file_id has
\* received = 1
C30_AssembleOnlyReceived ==
    \A r \in Reqs :
        (Done(r, "assemble") /\ h[r].code = 200) =>
            \A c \in DOMAIN chunks[h[r].file_id] : chunks[h[r].file_id][c].received = 1

\* ---------------------------------------------------------------------- C31
\* C31: a run sends /assemble at most once and only after /upload/missing
\* answered an empty list; a run that ended with exit code 1, 2 or 130 has
\* sent no /assemble; and a run whose /assemble was answered with anything
\* but status ok ends with exit code 3
C31_AssembleAfterReconciliation ==
    /\ s.assembles <= 1
    /\ s.assembles = 1 => s.missing = << >>
    /\ (s.pc = "exit" /\ s.exit_code \in {1, 2, 130}) => s.assembles = 0
    /\ (s.pc = "exit" /\ s.assembles = 1 /\ Answered /\ ~status_ok(h[SenderSlot].resp))
          => s.exit_code = 3

\* ---------------------------------------------------------------------- C32
\* C32: at every moment a file at a final chunk path holds the complete bytes
\* of one upload that passed the checksum verification, also while a handler
\* is between opening the file and having written it, or has failed there
C32_NoPartialChunkFile ==
    \A f \in FileIds : \A c \in DOMAIN staging[f] : staging[f][c] \in ClientBlobs

\* ---------------------------------------------------------------------- C33
\* the last n elements of the sequence q, all of it when it is shorter
LastOf(q, n) == IF Len(q) <= n THEN q ELSE SubSeq(q, Len(q) - n + 1, Len(q))

\* C33: after every call the speed window holds at most 10 entries, the most
\* recent recorded speeds in arrival order; get_success_rate is successes over
\* successes plus failures, between 0 and 1, and 1 when nothing was recorded;
\* get_avg_speed is 0 on an empty window; and record_failure changes nothing
\* but the failure count
C33_MonitorBookkeeping ==
    [][LET m == s'.monitor
           rate == get_success_rate(m)
           successes == Len(s'.speeds)
       IN /\ Len(m.recent_speeds) <= SpeedWindow
          /\ m.recent_speeds = LastOf(s'.speeds, SpeedWindow)
          /\ rate = IF successes + s'.failures = 0 THEN <<1, 1>>
                    ELSE <<successes, successes + s'.failures>>
          /\ 0 <= rate[1] /\ rate[1] <= rate[2] /\ rate[2] > 0
          /\ m.recent_speeds = << >> => get_avg_speed(m)[1] = 0
          /\ s'.failures = s.failures + 1 =>
                 /\ m.success_count = s.monitor.success_count
                 /\ m.recent_speeds = s.monitor.recent_speeds
                 /\ m.failure_count = s.monitor.failure_count + 1]_vars

\* an eleventh speed has pushed the first one out of a full window
C33_Witness ==
    /\ s.pc = "monitor"
    /\ Len(s.speeds) = SpeedWindow + 1
    /\ s.failures = 1
    /\ Len(s.monitor.recent_speeds) = SpeedWindow
    /\ s.speeds[1] # s.speeds[2]
    /\ s.monitor.recent_speeds[1] = s.speeds[2]

\* ---------------------------------------------------------------------- C34
\* C34: a run all of whose requests are answered comes to its end, with
\* /assemble requested after an empty missing list or with a nonzero exit code
C34_SenderTerminates ==
    <>(\/ s.pc = "exit" /\ (s.assembles = 1 \/ s.exit_code # 0)
       \/ Starved)

\* ---------------------------------------------------------------------- C35
\* C35: no step of a handler working on file_id f2 (init, chunk upload or
\* assemble, ending well or not) changes the manifest or the chunk rows of
\* f1, or the assembled artifact of f1 once it holds f1's file, also when
\* both were registered with one filename
C35_CrossTransferIsolation ==
    [][\A r \in Reqs :
          (InFlight(r) /\ h'[r] # h[r] /\ h[r].file_id = OtherFileId) =>
              LET fn == manifests["f1"].filename
              IN /\ manifests'["f1"] = manifests["f1"]
                 /\ chunks'["f1"] = chunks["f1"]
                 /\ (fn \in DOMAIN outputs /\ outputs[fn] = ClientFile) =>
                        (fn \in DOMAIN outputs' /\ outputs'[fn] = ClientFile)]_vars

====
